---- MODULE Spec2Model ----
(***************************************************************************)
(* A model of the searchable pick list widget (src/src/lib.rs): the        *)
(* widget-local State, its public operations, the event interpreter        *)
(* `update`, and the menu overlay's writes into the State.                 *)
(*                                                                         *)
(* Option<T> is modelled as a set with at most one element: None = {} and  *)
(* Some(x) = {x}.  Indices are 0-based as in the source.                   *)
(***************************************************************************)
EXTENDS Integers, Sequences, FiniteSets, TLC

\* ---------------------------------------------------------------- bounds
\* the longest option list the host supplies
MaxOptions == 2

\* The option type T: two values that differ.
Values == {1, 2}
OptionLists == UNION {[1..n -> Values] : n \in 0..MaxOptions}

\* ---------------------------------------------------------------- Option<T>
None == {}
Some(x) == {x}
Unwrap(o) == CHOOSE x \in o : TRUE

\* ---------------------------------------------------------------- inputs
\* keyboard::Modifiers is a set of flags; command() is CTRL (non-macOS builds).
Modifiers == {{}, {"SHIFT"}, {"CTRL"}}
command(modifiers) == "CTRL" \in modifiers

\* The box the layout gives the control.  It reaches into negative
\* coordinates, so a point can be inside the box with a negative coordinate.
bounds == [x |-> -2, y |-> -2, width |-> 4, height |-> 4]

\* Cursor positions: inside the box with both coordinates non-negative, inside
\* it with one or both negative, and outside it on either side.
Point(x, y) == [x |-> x, y |-> y]
Points == {Point(0, 0), Point(0, -1), Point(-1, -1), Point(3, 3), Point(-3, -3)}

contains(rect, point) ==
    /\ rect.x <= point.x /\ point.x <= rect.x + rect.width
    /\ rect.y <= point.y /\ point.y <= rect.y + rect.height

KeyCodes == {"Escape", "Enter", "Tab", "Up", "Down", "A"}
ScrollY == {-1, 0, 1}

Event(type, y, modifiers, key_code) ==
    [type |-> type, y |-> y, modifiers |-> modifiers, key_code |-> key_code]

NoEvent == Event("None", 0, {}, "None")
PressEvents == {Event(t, 0, {}, "None") : t \in {"ButtonPressed", "FingerPressed"}}
WheelEvents == {Event("WheelScrolled", y, {}, "None") : y \in ScrollY}
ModifiersEvents == {Event("ModifiersChanged", 0, m, "None") : m \in Modifiers}
OtherEvents ==
    {Event("KeyPressed", 0, {}, k) : k \in KeyCodes}
        \cup {Event("CharacterReceived", 0, {}, "a")}

\* ---------------------------------------------------------------- messages
Message(kind, value) == [kind |-> kind, value |-> value]
on_selected(v) == Message("on_selected", v)
on_focus_message == Message("on_focus", 0)
\* on_change(text): the edited text itself is not kept
on_change_message == Message("on_change", 0)
on_submit_message == Message("on_submit", 0)

\* ---------------------------------------------------------------- State
new ==
    [keyboard_modifiers |-> {},
     is_open |-> FALSE,
     hovered_option |-> None,
     last_selection |-> None,
     text_input |-> [is_focused |-> FALSE, keyboard_modifiers |-> {}]]

focus(s) == [s EXCEPT !.text_input.is_focused = TRUE]

\* mutant: the text field loses focus but the menu stays open
unfocus_keeps_open(s) == [s EXCEPT !.text_input.is_focused = FALSE]

unfocus(s) == [s EXCEPT !.text_input.is_focused = FALSE, !.is_open = FALSE]

\* mutant: the element is stored and the menu closed, the focus is kept
pick_keeps_focus(s, element) ==
    [s EXCEPT !.is_open = FALSE, !.last_selection = Some(element)]

pick(s, element) ==
    unfocus([s EXCEPT !.is_open = FALSE, !.last_selection = Some(element)])

is_focused(s) == s.text_input.is_focused

\* ---------------------------------------------------------------- text field
\* propagate_event hands the event to the embedded text field with the
\* control's own layout and cursor, the shell and the on_change and
\* on_submit of the control.  The text field keeps its focus and its own
\* snapshot of the keyboard modifiers.  On a primary press it takes focus
\* exactly when the press is inside the layout's box and publishes nothing.
\* A modifier change is recorded in its snapshot, focused or not (Ignored).
\* To the rest of the keyboard it reacts only while focused: a character
\* received is inserted and on_change published (Captured) unless the
\* command modifier is in its snapshot (Ignored, nothing changes); Enter
\* publishes on_submit when one is configured (Captured); Escape drops its
\* focus and resets its snapshot (Captured); Tab, Up and Down are left to the
\* host (Ignored); a plain key such as A is Captured and changes nothing.
propagate_event(text_input, event, cursor_position, on_submit) ==
    IF event.type \in {"ButtonPressed", "FingerPressed"}
    THEN LET is_clicked == contains(bounds, cursor_position)
         IN [state |-> [text_input EXCEPT !.is_focused = is_clicked],
             status |-> IF is_clicked THEN "Captured" ELSE "Ignored",
             published |-> <<>>]
    ELSE IF event.type = "ModifiersChanged"
    THEN [state |-> [text_input EXCEPT !.keyboard_modifiers = event.modifiers],
          status |-> "Ignored", published |-> <<>>]
    ELSE IF event.type = "CharacterReceived" /\ text_input.is_focused
    THEN IF ~command(text_input.keyboard_modifiers)
         THEN [state |-> text_input, status |-> "Captured",
               published |-> <<on_change_message>>]
         ELSE [state |-> text_input, status |-> "Ignored", published |-> <<>>]
    ELSE IF event.type = "KeyPressed" /\ text_input.is_focused
    THEN IF event.key_code = "Escape"
         THEN [state |-> [text_input EXCEPT !.is_focused = FALSE,
                                            !.keyboard_modifiers = {}],
               status |-> "Captured", published |-> <<>>]
         ELSE IF event.key_code = "Enter"
         THEN [state |-> text_input, status |-> "Captured",
               published |-> IF on_submit # None
                             THEN <<Unwrap(on_submit)>> ELSE <<>>]
         ELSE IF event.key_code \in {"Tab", "Up", "Down"}
         THEN [state |-> text_input, status |-> "Ignored", published |-> <<>>]
         ELSE [state |-> text_input, status |-> "Captured", published |-> <<>>]
    ELSE [state |-> text_input, status |-> "Ignored", published |-> <<>>]

\* ---------------------------------------------------------------- helpers
Reverse(seq) == [i \in 1..Len(seq) |-> seq[Len(seq) + 1 - i]]

\* mutant: the search keeps the last match instead of the first
position_last(options, selected) ==
    LET hits == {i \in 1..Len(options) : Some(options[i]) = selected}
    IN IF hits = {} THEN None
       ELSE Some((CHOOSE i \in hits : \A j \in hits : i >= j) - 1)

\* options.iter().position(|option| Some(option) == selected)
position(options, selected) ==
    LET hits == {i \in 1..Len(options) : Some(options[i]) = selected}
    IN IF hits = {} THEN None
       ELSE Some((CHOOSE i \in hits : \A j \in hits : i <= j) - 1)

\* mutant: past the end the search wraps around to the first element
find_next_wrapping(selected, options) ==
    LET hits == {i \in 1..Len(options) : options[i] = selected}
    IN IF hits = {} THEN None
       ELSE LET k == CHOOSE i \in hits : \A j \in hits : i <= j
            IN IF k + 1 <= Len(options) THEN Some(options[k + 1]) ELSE Some(options[1])

\* mutant: when nothing matches the search starts over and yields the first
\* element
find_next_restarts(selected, options) ==
    LET hits == {i \in 1..Len(options) : options[i] = selected}
    IN IF hits = {} THEN (IF Len(options) = 0 THEN None ELSE Some(options[1]))
       ELSE LET k == CHOOSE i \in hits : \A j \in hits : i <= j
            IN IF k + 1 <= Len(options) THEN Some(options[k + 1]) ELSE None

\* find consumes the iterator up to and including the first match (all of it
\* when nothing matches); next() then yields the element after it, if any.
find_next(selected, options) ==
    LET hits == {i \in 1..Len(options) : options[i] = selected}
    IN IF hits = {} THEN None
       ELSE LET k == CHOOSE i \in hits : \A j \in hits : i <= j
            IN IF k + 1 <= Len(options) THEN Some(options[k + 1]) ELSE None

first(options) == IF Len(options) = 0 THEN None ELSE Some(options[1])
last(options) == IF Len(options) = 0 THEN None ELSE Some(options[Len(options)])

\* ---------------------------------------------------------------- update
Result(s, status, published) ==
    [state |-> s, status |-> status, published |-> published]

\* mutant: every press on the Open control closes it, wherever it lands
open_arm_closes_anywhere(s, event, cursor_position, on_submit) ==
    Result(unfocus(s), "Captured", <<>>)

\* mutant: the test for a valid cursor is inverted
open_arm_inverted(s, event, cursor_position, on_submit) ==
    IF contains(bounds, cursor_position)
    THEN IF ~(cursor_position.x >= 0 /\ cursor_position.y >= 0)
         THEN Result(unfocus(s), "Captured", <<>>)
         ELSE Result(
                [s EXCEPT !.text_input =
                   propagate_event(s.text_input, event, cursor_position, on_submit).state],
                "Captured", <<>>)
    ELSE Result(s, "Captured", <<>>)

\* A primary press while Open: inside the box it dismisses the menu, unless
\* a coordinate is negative, and then the press goes to the text field;
\* outside the box nothing changes.  Captured in every case.
open_arm(s, event, cursor_position, on_submit) ==
    IF contains(bounds, cursor_position)
    THEN IF cursor_position.x >= 0 /\ cursor_position.y >= 0
         THEN Result(unfocus(s), "Captured", <<>>)
         ELSE Result(
                [s EXCEPT !.text_input =
                   propagate_event(s.text_input, event, cursor_position, on_submit).state],
                "Captured", <<>>)
    ELSE Result(s, "Captured", <<>>)

\* mutant: the press opens the control wherever it lands
closed_arm_anywhere(s, event, cursor_position, on_focus, selected, options, on_submit) ==
    LET opened == focus([s EXCEPT !.is_open = TRUE,
                                  !.hovered_option = position(options, selected)])
        forwarded == [opened EXCEPT !.text_input =
                        propagate_event(opened.text_input, event, cursor_position, on_submit).state]
    IN Result(forwarded, "Captured",
              IF on_focus # None THEN <<Unwrap(on_focus)>> ELSE <<>>)

\* mutant: the opening press is reported as not handled
closed_arm_reports_ignored(s, event, cursor_position, on_focus, selected, options, on_submit) ==
    IF contains(bounds, cursor_position)
    THEN LET opened == focus([s EXCEPT !.is_open = TRUE,
                                       !.hovered_option = position(options, selected)])
             forwarded == [opened EXCEPT !.text_input =
                             propagate_event(opened.text_input, event, cursor_position, on_submit).state]
         IN Result(forwarded, "Ignored",
                   IF on_focus # None THEN <<Unwrap(on_focus)>> ELSE <<>>)
    ELSE Result(s, "Ignored", <<>>)

\* A primary press while Closed: inside the box it opens the menu, hovers the
\* selected option, focuses the text field, moves its cursor to the end (the
\* text is not modelled), forwards the press to it and publishes the on-focus
\* message if there is one; outside the box it is Ignored.
closed_arm(s, event, cursor_position, on_focus, selected, options, on_submit) ==
    IF contains(bounds, cursor_position)
    THEN LET opened == focus([s EXCEPT !.is_open = TRUE,
                                       !.hovered_option = position(options, selected)])
             forwarded == [opened EXCEPT !.text_input =
                             propagate_event(opened.text_input, event, cursor_position, on_submit).state]
         IN Result(forwarded, "Captured",
                   IF on_focus # None THEN <<Unwrap(on_focus)>> ELSE <<>>)
    ELSE Result(s, "Ignored", <<>>)

\* The primary-press branch, before the mailbox is looked at.
press_branch(s, event, cursor_position, on_focus, selected, options, on_submit) ==
    IF s.is_open
    THEN open_arm(s, event, cursor_position, on_submit)
    ELSE closed_arm(s, event, cursor_position, on_focus, selected, options, on_submit)

\* mutant: the selection message is put in front of what the arm published
drain_prepends(r) ==
    IF r.state.last_selection # None
    THEN Result(unfocus([r.state EXCEPT !.last_selection = None, !.is_open = FALSE]),
                "Captured",
                <<on_selected(Unwrap(r.state.last_selection))>> \o r.published)
    ELSE r

\* mutant: the pending selection is emitted but the control is not closed
drain_without_close(r) ==
    IF r.state.last_selection # None
    THEN Result([r.state EXCEPT !.last_selection = None],
                "Captured",
                Append(r.published, on_selected(Unwrap(r.state.last_selection))))
    ELSE r

\* state.last_selection.take(): a pending selection is emitted and the
\* control is closed, whatever the arm above did.
drain(r) ==
    IF r.state.last_selection # None
    THEN Result(unfocus([r.state EXCEPT !.last_selection = None, !.is_open = FALSE]),
                "Captured",
                Append(r.published, on_selected(Unwrap(r.state.last_selection))))
    ELSE r

\* mutant: the scroll directions are swapped
next_option_swapped(y, selected, options) ==
    IF y > 0
    THEN IF selected # None THEN find_next(Unwrap(selected), options)
         ELSE first(options)
    ELSE IF y < 0
    THEN IF selected # None THEN find_next(Unwrap(selected), Reverse(options))
         ELSE last(options)
    ELSE None

\* mutant: the backward search runs over the list in forward order
next_option_no_rev(y, selected, options) ==
    IF y < 0
    THEN IF selected # None THEN find_next(Unwrap(selected), options)
         ELSE first(options)
    ELSE IF y > 0
    THEN IF selected # None THEN find_next(Unwrap(selected), options)
         ELSE last(options)
    ELSE None

next_option(y, selected, options) ==
    IF y < 0
    THEN IF selected # None THEN find_next(Unwrap(selected), options)
         ELSE first(options)
    ELSE IF y > 0
    THEN IF selected # None THEN find_next(Unwrap(selected), Reverse(options))
         ELSE last(options)
    ELSE None

\* mutant: the scroll cycles while the menu is open too
wheel_scrolled_while_open(s, event, cursor_position, selected, options) ==
    IF /\ command(s.keyboard_modifiers)
       /\ contains(bounds, cursor_position)
    THEN LET next == next_option(event.y, selected, options)
         IN Result(s, "Captured",
                   IF next # None THEN <<on_selected(Unwrap(next))>> ELSE <<>>)
    ELSE Result(s, "Ignored", <<>>)

wheel_scrolled(s, event, cursor_position, selected, options) ==
    IF /\ command(s.keyboard_modifiers)
       /\ contains(bounds, cursor_position)
       /\ ~s.is_open
    THEN LET next == next_option(event.y, selected, options)
         IN Result(s, "Captured",
                   IF next # None THEN <<on_selected(Unwrap(next))>> ELSE <<>>)
    ELSE Result(s, "Ignored", <<>>)

\* mutant: the event is forwarded but the new modifiers are not recorded
modifiers_changed_unrecorded(s, event, cursor_position, on_submit) ==
    Result([s EXCEPT !.text_input =
              propagate_event(s.text_input, event, cursor_position, on_submit).state],
           "Ignored", <<>>)

modifiers_changed(s, event, cursor_position, on_submit) ==
    LET recorded == [s EXCEPT !.keyboard_modifiers = event.modifiers]
    IN Result([recorded EXCEPT !.text_input =
                 propagate_event(recorded.text_input, event, cursor_position, on_submit).state],
              "Ignored", <<>>)

\* mutant: the menu is closed when the text field gives up its focus
forwarded_event_closes(s, event, cursor_position, on_submit) ==
    LET r == propagate_event(s.text_input, event, cursor_position, on_submit)
    IN Result([s EXCEPT !.text_input = r.state,
                        !.is_open = s.is_open /\ r.state.is_focused],
              r.status, r.published)

forwarded_event(s, event, cursor_position, on_submit) ==
    LET r == propagate_event(s.text_input, event, cursor_position, on_submit)
    IN Result([s EXCEPT !.text_input = r.state], r.status, r.published)

update(s, event, cursor_position, on_focus, selected, options, on_submit) ==
    IF event.type \in {"ButtonPressed", "FingerPressed"}
    THEN drain(press_branch(s, event, cursor_position, on_focus, selected, options, on_submit))
    ELSE IF event.type = "WheelScrolled"
    THEN wheel_scrolled(s, event, cursor_position, selected, options)
    ELSE IF event.type = "ModifiersChanged"
    THEN modifiers_changed(s, event, cursor_position, on_submit)
    ELSE forwarded_event(s, event, cursor_position, on_submit)

\* ---------------------------------------------------------------- layout
\* PickList::DEFAULT_PADDING
DEFAULT_PADDING == 5
\* the width used where there is nothing to measure
FALLBACK_WIDTH == 100

\* T: ToString.  The value v prints as a label of v characters.
to_string(v) == [i \in 1..v |-> "x"]

\* The renderer measures a label as so much per character, in halves of a
\* unit (61 is 30.5 units), and knows the default text size.
Renderers == [glyph : {60, 61, 120}, default_size : {20}]
measured(renderer, label) == renderer.glyph * Len(label)

\* f32::round of a non-negative width given in halves: ties go up.
round(halves) == (halves + 1) \div 2

\* the closure `measure`: the rendered width of the label, rounded, as u32
measure(renderer, label) == round(measured(renderer, label))

Max(S) == CHOOSE x \in S : \A y \in S : x >= y

Lengths == {"Shrink", "Fill"}
Paddings == {0, DEFAULT_PADDING}
TextSizes == {None, Some(16)}
Placeholders == {None, Some(<<>>), Some(<<"p", "p", "p", "p">>)}

\* mutant: the narrower of the labels and the placeholder is kept
layout_min(renderer, width, padding_left, text_size, placeholder, options) ==
    LET size == IF text_size = None THEN renderer.default_size ELSE Unwrap(text_size)
        labels_width ==
            IF Len(options) = 0 THEN FALLBACK_WIDTH
            ELSE Max({measure(renderer, to_string(options[i])) : i \in 1..Len(options)})
        placeholder_width ==
            IF placeholder = None THEN FALLBACK_WIDTH
            ELSE measure(renderer, Unwrap(placeholder))
        max_width ==
            IF width = "Shrink"
            THEN IF labels_width <= placeholder_width
                 THEN labels_width ELSE placeholder_width
            ELSE 0
    IN [max_width |-> max_width,
        intrinsic |-> [width |-> max_width + size + padding_left, height |-> size]]

\* The content width and the intrinsic size of the control; resolving the
\* intrinsic size against the limits and padding it is left to the host's
\* layout types.
layout(renderer, width, padding_left, text_size, placeholder, options) ==
    LET size == IF text_size = None THEN renderer.default_size ELSE Unwrap(text_size)
        labels_width ==
            IF Len(options) = 0 THEN FALLBACK_WIDTH
            ELSE Max({measure(renderer, to_string(options[i])) : i \in 1..Len(options)})
        placeholder_width ==
            IF placeholder = None THEN FALLBACK_WIDTH
            ELSE measure(renderer, Unwrap(placeholder))
        max_width ==
            IF width = "Shrink" THEN Max({labels_width, placeholder_width}) ELSE 0
    IN [max_width |-> max_width,
        intrinsic |-> [width |-> max_width + size + padding_left, height |-> size]]

\* ---------------------------------------------------------------- overlay
\* mutant: the menu is built whether or not the control is open
overlay_always(s, options) ==
    Some([options |-> options, hovered_option |-> s.hovered_option])

\* The menu exists only while is_open; it is built over the options and
\* holds the State's hovered_option and last_selection.
overlay(s, options) ==
    IF s.is_open
    THEN Some([options |-> options, hovered_option |-> s.hovered_option])
    ELSE None

\* ---------------------------------------------------------------- the machine
VARIABLES
    state,            \* the widget's State<T>
    options,          \* PickList.options, as the host last built the widget
    selected,         \* PickList.selected
    on_focus,         \* PickList.on_focus
    op,               \* the call in progress, "idle" between calls
    event,            \* its event (update only)
    cursor_position,  \* its cursor position (update only)
    status,           \* the event::Status it returns (update only)
    published,        \* the messages it handed to the shell, in order
    old,              \* the State<T> it started from
    argument,         \* the element it was given (State::pick only)
    previous,         \* history: what the call before this one did
    node              \* the last layout pass: its inputs and its sizes

vars == <<state, options, selected, on_focus, op, event, cursor_position,
          status, published, old, argument, previous, node>>

Origin == [x |-> 0, y |-> 0]

\* no layout pass yet
NoNode == [width |-> "None"]

Selections == {None} \cup {Some(v) : v \in Values}
OnFocus == {None, Some(on_focus_message)}
OnSubmit == {None, Some(on_submit_message)}

\* Nothing is in progress: no event, no status, an empty shell.
Idle ==
    /\ op' = "idle"
    /\ event' = NoEvent
    /\ cursor_position' = Origin
    /\ status' = "None"
    /\ published' = <<>>
    /\ old' = state
    /\ argument' = None

Init ==
    /\ state = new
    /\ options \in OptionLists
    /\ selected \in Selections
    /\ on_focus \in OnFocus
    /\ op = "idle"
    /\ event = NoEvent
    /\ cursor_position = Origin
    /\ status = "None"
    /\ published = <<>>
    /\ old = state
    /\ argument = None
    /\ previous = "none"
    /\ node = NoNode

\* What a call did, as the next call will remember it: a press that took the
\* control from Closed to Open, a press inside the box at a non-negative
\* position that took it from Open to Closed, a State::pick, or anything else.
IsPress == op = "update" /\ event.type \in {"ButtonPressed", "FingerPressed"}
Inside == contains(bounds, cursor_position)
NonNegative == cursor_position.x >= 0 /\ cursor_position.y >= 0

Did ==
    IF IsPress /\ ~old.is_open /\ state.is_open THEN "opened"
    ELSE IF IsPress /\ old.is_open /\ Inside /\ NonNegative /\ ~state.is_open
    THEN "dismissed"
    ELSE IF op = "State::pick" THEN "picked"
    ELSE "other"

\* Widget::on_event: one event through update.
OnEvent(e, c, on_submit) ==
    LET r == update(state, e, c, on_focus, selected, options, on_submit)
    IN /\ op = "idle"
       /\ state' = r.state
       /\ status' = r.status
       /\ published' = r.published
       /\ event' = e
       /\ cursor_position' = c
       /\ op' = "update"
       /\ old' = state
       /\ argument' = None
       /\ UNCHANGED <<options, selected, on_focus, previous, node>>

\* on_submit is the one the widget was built with for this pass
Press ==
    \E e \in PressEvents, c \in Points, on_submit \in OnSubmit :
        OnEvent(e, c, on_submit)
Wheel ==
    \E e \in WheelEvents, c \in Points, on_submit \in OnSubmit :
        OnEvent(e, c, on_submit)
ModifiersChanged ==
    \E e \in ModifiersEvents, c \in Points, on_submit \in OnSubmit :
        OnEvent(e, c, on_submit)
Forwarded ==
    \E e \in OtherEvents, c \in Points, on_submit \in OnSubmit :
        OnEvent(e, c, on_submit)

\* A public operation on State: no event, no status, no message.
Operation(name, arg, s) ==
    /\ op = "idle"
    /\ state' = s
    /\ argument' = arg
    /\ op' = name
    /\ old' = state
    /\ event' = NoEvent
    /\ cursor_position' = Origin
    /\ status' = "None"
    /\ published' = <<>>
    /\ UNCHANGED <<options, selected, on_focus, previous, node>>

Focus == Operation("State::focus", None, focus(state))
Unfocus == Operation("State::unfocus", None, unfocus(state))
Pick ==
    \E element \in Values :
        Operation("State::pick", Some(element), pick(state, element))
FocusableFocus == Operation("Focusable::focus", None, focus(state))
FocusableUnfocus == Operation("Focusable::unfocus", None, unfocus(state))

\* The menu the overlay builds while the control is open holds the option
\* list and references to hovered_option and last_selection.  The entry under
\* the cursor is the cursor's height in the menu divided by the height of an
\* entry; the menu's box includes its bottom edge, so the entry is any index
\* from 0 to the length of the list, the length itself (one past the end)
\* included, also for an empty list.
MenuEntries == 0..Len(options)

\* options.get(index): the entry is written into the mailbox if it exists
MenuSelect(s) ==
    IF s.hovered_option # None /\ Unwrap(s.hovered_option) < Len(options)
    THEN [s EXCEPT !.last_selection = Some(options[Unwrap(s.hovered_option) + 1])]
    ELSE s

\* The cursor moves over the menu: the entry under it is hovered.
MenuHover ==
    /\ overlay(state, options) # None
    /\ \E i \in MenuEntries :
         Operation("Menu::hover", None, [state EXCEPT !.hovered_option = Some(i)])

\* A mouse press on the menu selects the hovered entry; a touch hovers the
\* entry under the finger and selects it.
MenuPress ==
    /\ overlay(state, options) # None
    /\ \/ Operation("Menu::press", None, MenuSelect(state))
       \/ \E i \in MenuEntries :
            Operation("Menu::press", None,
                      MenuSelect([state EXCEPT !.hovered_option = Some(i)]))

\* The call returns: the runtime takes the status and drains the shell.
Return ==
    /\ op # "idle"
    /\ Idle
    /\ previous' = Did
    /\ UNCHANGED <<state, options, selected, on_focus, node>>

\* The host builds the widget anew from its view: the options, the selected
\* value and the on-focus message are whatever it supplies this time.
ViewOptions ==
    /\ op = "idle"
    /\ options' \in OptionLists
    /\ UNCHANGED <<state, selected, on_focus, op, event, cursor_position,
                   status, published, old, argument, previous, node>>

ViewSelected ==
    /\ op = "idle"
    /\ selected' \in Selections
    /\ UNCHANGED <<state, options, on_focus, op, event, cursor_position,
                   status, published, old, argument, previous, node>>

ViewOnFocus ==
    /\ op = "idle"
    /\ on_focus' \in OnFocus
    /\ UNCHANGED <<state, options, selected, op, event, cursor_position,
                   status, published, old, argument, previous, node>>

Next ==
    \/ Press
    \/ Wheel
    \/ ModifiersChanged
    \/ Forwarded
    \/ Focus
    \/ Unfocus
    \/ Pick
    \/ FocusableFocus
    \/ FocusableUnfocus
    \/ MenuHover
    \/ MenuPress
    \/ Return
    \/ ViewOptions
    \/ ViewSelected
    \/ ViewOnFocus

Spec == Init /\ [][Next]_vars

\* ---------------------------------------------------------------- layout passes
\* Widget::layout: one layout pass over the options the widget holds, with
\* the renderer, width policy, padding, text size and placeholder of this
\* pass.  It reads no State and writes none.
Layout ==
    /\ \E renderer \in Renderers, width \in Lengths, padding_left \in Paddings,
          text_size \in TextSizes, placeholder \in Placeholders :
         node' = [width |-> width,
                  renderer |-> renderer,
                  padding_left |-> padding_left,
                  text_size |-> text_size,
                  placeholder |-> placeholder,
                  options |-> options,
                  size |-> layout(renderer, width, padding_left, text_size,
                                  placeholder, options)]
    /\ UNCHANGED <<state, options, selected, on_focus, op, event, cursor_position,
                   status, published, old, argument, previous>>

NextLayout ==
    \/ Layout
    \/ ViewOptions

SpecLayout == Init /\ [][NextLayout]_vars

\* ================================================================ claims
IsSelection(m) == m.kind = "on_selected"
\* the selection messages a call published, in order
SelectionsOf(msgs) == SelectSeq(msgs, IsSelection)

IsWheel == op = "update" /\ event.type = "WheelScrolled"
IsModifiers == op = "update" /\ event.type = "ModifiersChanged"
\* the gate of scroll-to-cycle, on the state the event found
Gated ==
    /\ IsWheel
    /\ ~old.is_open
    /\ command(old.keyboard_modifiers)
    /\ Inside

\* C1: in every reachable state, is_open = true implies that the embedded
\* text field is focused.  The code does not keep this: an Escape key press
\* forwarded to the text field while the control is Open drops the field's
\* focus and leaves is_open set.
C1_OpenImpliesFocused == state.is_open => is_focused(state)

\* C2: a primary press or touch processed while the mailbox holds v emits
\* on_selected(v) as its one selection message, empties the mailbox, leaves
\* the control Closed and the text field unfocused, and returns Captured,
\* wherever the press lands and whether the control was Open or Closed.
C2_PressDrainsMailbox ==
    (IsPress /\ old.last_selection # None) =>
        /\ SelectionsOf(published) = <<on_selected(Unwrap(old.last_selection))>>
        /\ state.last_selection = None
        /\ ~state.is_open
        /\ ~is_focused(state)
        /\ status = "Captured"

\* C2 witness: a press inside the box of the Closed control, with an on-focus
\* message configured and 2 pending, that published both messages.
C2_Witness ==
    /\ IsPress
    /\ old.last_selection = Some(2)
    /\ ~old.is_open
    /\ Inside
    /\ published = <<on_focus_message, on_selected(2)>>
    /\ ~state.is_open

\* C3 as stated: a press while Closed yields is_open and focus when it lands
\* inside the box, and no state change and Ignored when it lands outside.
C3_ClosedPressAsStated ==
    (IsPress /\ ~old.is_open) =>
        IF Inside
        THEN state.is_open /\ is_focused(state)
        ELSE state = old /\ status = "Ignored"

\* C3 amended: a press while Closed with the mailbox empty yields is_open and
\* focus when it lands inside the box, and no state change and Ignored when
\* it lands outside.
C3_ClosedPress ==
    (IsPress /\ ~old.is_open /\ old.last_selection = None) =>
        IF Inside
        THEN state.is_open /\ is_focused(state)
        ELSE state = old /\ status = "Ignored"

\* C3 witness: a press inside the box opened the Closed, unfocused control.
C3_Witness ==
    /\ IsPress
    /\ ~old.is_open
    /\ ~is_focused(old)
    /\ old.last_selection = None
    /\ Inside
    /\ state.is_open
    /\ is_focused(state)

\* C4: the press right after the press that opened the control, landing
\* inside the box at a non-negative position, leaves is_open = false and the
\* text field unfocused, and is reported Captured.
C4_OpenThenDismiss ==
    (IsPress /\ previous = "opened" /\ Inside /\ NonNegative) =>
        /\ ~state.is_open
        /\ ~is_focused(state)
        /\ status = "Captured"

\* C4 witness: such a dismiss-click found the control Open and focused.
C4_Witness ==
    /\ IsPress
    /\ previous = "opened"
    /\ Inside
    /\ NonNegative
    /\ old.is_open
    /\ is_focused(old)
    /\ ~state.is_open

\* C5 as stated: the press inside the box right after a dismiss-click closed
\* the control changes nothing, emits nothing and is Ignored.
C5_DismissIdempotentAsStated ==
    (IsPress /\ previous = "dismissed" /\ Inside) =>
        /\ state = old
        /\ published = <<>>
        /\ status = "Ignored"

\* C5 amended: the press right after a dismiss-click closed the control
\* reopens it when it lands inside the box (is_open, text field focused,
\* Captured); only a press outside the box changes nothing, emits nothing
\* and is Ignored.
C5_PressAfterDismiss ==
    (IsPress /\ previous = "dismissed") =>
        IF Inside
        THEN state.is_open /\ is_focused(state) /\ status = "Captured"
        ELSE state = old /\ published = <<>> /\ status = "Ignored"

\* C5 witness: a second click inside the box reopened the control.
C5_Witness ==
    /\ IsPress
    /\ previous = "dismissed"
    /\ Inside
    /\ NonNegative
    /\ ~old.is_open
    /\ state.is_open

\* C6 as stated: a press outside the box while Open, mailbox empty, changes
\* no state and is reported Ignored.
C6_OpenPressOutsideAsStated ==
    (IsPress /\ old.is_open /\ old.last_selection = None /\ ~Inside) =>
        /\ state = old
        /\ status = "Ignored"

\* C6 amended: a press outside the box while Open, mailbox empty, changes no
\* state and emits no message, and is reported Captured.
C6_OpenPressOutside ==
    (IsPress /\ old.is_open /\ old.last_selection = None /\ ~Inside) =>
        /\ state = old
        /\ published = <<>>
        /\ status = "Captured"

\* C6 witness: a press outside the box left the control Open and focused.
C6_Witness ==
    /\ IsPress
    /\ old.is_open
    /\ old.last_selection = None
    /\ ~Inside
    /\ state.is_open
    /\ is_focused(state)
    /\ status = "Captured"

\* C7: a modifiers-changed event leaves is_open, hovered_option and
\* last_selection as they were, records the new modifiers, emits no selection
\* message and returns Ignored.
C7_ModifiersChanged ==
    IsModifiers =>
        /\ state.is_open = old.is_open
        /\ state.hovered_option = old.hovered_option
        /\ state.last_selection = old.last_selection
        /\ state.keyboard_modifiers = event.modifiers
        /\ SelectionsOf(published) = <<>>
        /\ status = "Ignored"

\* C7 witness: the command modifier went down while the control was Open
\* with a selection pending.
C7_Witness ==
    /\ IsModifiers
    /\ event.modifiers = {"CTRL"}
    /\ old.keyboard_modifiers = {}
    /\ old.is_open
    /\ old.last_selection # None
    /\ state.keyboard_modifiers = {"CTRL"}

\* C8: a gated forward scroll (y < 0) with no Selected Value emits the
\* selection of the first option when there is one and nothing when the
\* list is empty, and leaves is_open = false.
C8_ScrollForwardNoSelection ==
    (Gated /\ event.y < 0 /\ selected = None) =>
        /\ published = IF Len(options) > 0 THEN <<on_selected(options[1])>> ELSE <<>>
        /\ ~state.is_open

\* C8 witness: such a scroll over a two-option list emitted its first option.
C8_Witness ==
    /\ Gated
    /\ event.y < 0
    /\ selected = None
    /\ options = <<2, 1>>
    /\ published = <<on_selected(2)>>

\* C9 as stated: a gated forward scroll with the Selected Value equal to the
\* last option emits nothing, and a gated backward scroll with the Selected
\* Value equal to the first option emits nothing.
C9_NoWrapAsStated ==
    (Gated /\ Len(options) > 0) =>
        /\ (event.y < 0 /\ selected = Some(options[Len(options)])) => published = <<>>
        /\ (event.y > 0 /\ selected = Some(options[1])) => published = <<>>

\* the option at index i is the only one equal to the Selected Value
OnlyAt(i) ==
    /\ i \in 1..Len(options)
    /\ \A j \in 1..Len(options) : (Some(options[j]) = selected) <=> (j = i)

\* C9 amended: a gated forward scroll with the Selected Value equal to the
\* last option and to no other option emits nothing, and a gated backward
\* scroll with the Selected Value equal to the first option and to no other
\* option emits nothing.
C9_NoWrap ==
    Gated =>
        /\ (event.y < 0 /\ OnlyAt(Len(options))) => published = <<>>
        /\ (event.y > 0 /\ OnlyAt(1)) => published = <<>>

\* C9 witness: a forward scroll on the last of two different options.
C9_Witness ==
    /\ Gated
    /\ event.y < 0
    /\ options = <<1, 2>>
    /\ selected = Some(2)
    /\ published = <<>>
    /\ status = "Captured"

\* C10: unfocus, called on State or through Focusable, leaves is_open =
\* false and the text field unfocused, whatever the state before.
C10_Unfocus ==
    (op \in {"State::unfocus", "Focusable::unfocus"}) =>
        /\ ~state.is_open
        /\ ~is_focused(state)

\* C10 witness: unfocus through Focusable closed an Open, focused control.
C10_Witness ==
    /\ op = "Focusable::unfocus"
    /\ old.is_open
    /\ is_focused(old)
    /\ ~state.is_open
    /\ ~is_focused(state)

\* C11: the overlay returns a menu exactly when is_open holds, so a menu,
\* and with it a write of the menu into hovered_option or the mailbox, exists
\* only while the control is Open.
C11_OverlayIffOpen ==
    /\ (overlay(state, options) # None) <=> state.is_open
    /\ (op \in {"Menu::hover", "Menu::press"}) => old.is_open

\* C11 witness: a press on the menu of the Open control filled the mailbox.
C11_Witness ==
    /\ op = "Menu::press"
    /\ old.is_open
    /\ old.last_selection = None
    /\ state.last_selection # None
    /\ overlay(state, options) # None

\* C12: in every reachable state hovered_option is none or an index below
\* the length of the option list the host currently supplies.  The code
\* never looks at hovered_option when the list changes: the index set at
\* opening outlives a shorter list.
C12_HoveredValid ==
    \/ state.hovered_option = None
    \/ Unwrap(state.hovered_option) < Len(options)

\* C13: a press that takes the opening arm (Closed, inside the box) sets
\* hovered_option to the index of the first option equal to the Selected
\* Value, and to none when there is no Selected Value or no option equals
\* it, whatever hovered_option held before.
C13_HoveredAtOpening ==
    (IsPress /\ ~old.is_open /\ Inside) =>
        IF \E i \in 1..Len(options) : Some(options[i]) = selected
        THEN /\ state.hovered_option # None
             /\ LET h == Unwrap(state.hovered_option) + 1
                IN /\ h \in 1..Len(options)
                   /\ Some(options[h]) = selected
                   /\ \A j \in 1..(h - 1) : Some(options[j]) # selected
        ELSE state.hovered_option = None

\* C13 witness: opening over two equal options with index 1 left over from
\* an earlier opening hovered index 0.
C13_Witness ==
    /\ IsPress
    /\ ~old.is_open
    /\ Inside
    /\ state.is_open
    /\ options = <<1, 1>>
    /\ selected = Some(1)
    /\ old.hovered_option = Some(1)
    /\ state.hovered_option = Some(0)

\* a call that writes the mailbox: State::pick always, a press on the menu
\* when the hovered index names an option
MailboxWrite ==
    \/ op = "State::pick"
    \/ /\ op = "Menu::press"
       /\ old.hovered_option # None
       /\ Unwrap(old.hovered_option) < Len(options)

\* C14: the mailbox is written only while it is empty, and a value leaves it
\* only by being emitted as the selection message of the call that takes
\* it.  The code writes it unconditionally: a second State::pick (or a
\* second press on the menu) replaces a value no press has drained yet.
C14_MailboxOneShot ==
    /\ MailboxWrite => old.last_selection = None
    /\ (old.last_selection # None /\ state.last_selection # old.last_selection) =>
           SelectionsOf(published) = <<on_selected(Unwrap(old.last_selection))>>

\* no two options of the list are equal
Distinct(seq) == \A i, j \in 1..Len(seq) : i # j => seq[i] # seq[j]
\* what a scroll publishes for the option at index i, if there is one
SelectionAt(i) ==
    IF i \in 1..Len(options) THEN <<on_selected(options[i])>> ELSE <<>>

\* C16: over a list of distinct options a gated scroll with the Selected
\* Value at index i emits the selection of option i+1 when scrolling forward
\* and of option i-1 when scrolling backward, where that option exists; with
\* no Selected Value it emits the first option (forward) or the last
\* (backward); with y = 0 it emits nothing.
C16_ScrollCycle ==
    (Gated /\ Distinct(options)) =>
        /\ event.y = 0 => published = <<>>
        /\ (selected = None /\ event.y < 0) => published = SelectionAt(1)
        /\ (selected = None /\ event.y > 0) => published = SelectionAt(Len(options))
        /\ \A i \in 1..Len(options) :
             selected = Some(options[i]) =>
                 /\ event.y < 0 => published = SelectionAt(i + 1)
                 /\ event.y > 0 => published = SelectionAt(i - 1)

\* C16 witness: a backward scroll from the second of two options emitted the
\* first.
C16_Witness ==
    /\ Gated
    /\ event.y > 0
    /\ options = <<1, 2>>
    /\ selected = Some(2)
    /\ published = <<on_selected(1)>>

\* C17: a line scroll that finds the control Open, or the command modifier
\* up, or the pointer off the box, emits nothing, changes no State and is
\* Ignored; one that finds all three conditions met is Captured, with or
\* without a next option, and leaves is_open as it was.
C17_ScrollGate ==
    IsWheel =>
        IF ~old.is_open /\ command(old.keyboard_modifiers) /\ Inside
        THEN status = "Captured" /\ state.is_open = old.is_open
        ELSE published = <<>> /\ state = old /\ status = "Ignored"

\* C17 witness: a gated scroll with nowhere to go was Captured and emitted
\* nothing.
C17_Witness ==
    /\ Gated
    /\ event.y > 0
    /\ options = <<>>
    /\ selected = None
    /\ published = <<>>
    /\ status = "Captured"
    /\ ~state.is_open

IsFocusMessage(m) == m.kind = "on_focus"
\* the press took the opening arm
Opening == IsPress /\ ~old.is_open /\ Inside

\* C18: the on-focus message, when one is configured, is published once by
\* a press that takes the opening arm and by no other call; with a selection
\* pending at that press it comes before the selection message.
C18_OnFocus ==
    /\ Len(SelectSeq(published, IsFocusMessage)) =
           IF Opening /\ on_focus # None THEN 1 ELSE 0
    /\ (Opening /\ on_focus # None /\ old.last_selection # None) =>
           published = <<on_focus_message, on_selected(Unwrap(old.last_selection))>>

\* C18 witness: a touch inside the Closed box with 1 pending published the
\* on-focus message and then the selection.
C18_Witness ==
    /\ Opening
    /\ event.type = "FingerPressed"
    /\ on_focus # None
    /\ old.last_selection = Some(1)
    /\ published = <<on_focus_message, on_selected(1)>>

\* C20: State::pick(e) leaves is_open = false, the text field unfocused and
\* e in the mailbox, and publishes nothing; the press that follows it emits
\* on_selected(e) and leaves the control Closed, inside the box or not.
C20_Pick ==
    /\ op = "State::pick" =>
           /\ ~state.is_open
           /\ ~is_focused(state)
           /\ state.last_selection = argument
           /\ argument # None
           /\ published = <<>>
    /\ (IsPress /\ previous = "picked") =>
           /\ old.last_selection # None
           /\ SelectionsOf(published) = <<on_selected(Unwrap(old.last_selection))>>
           /\ ~state.is_open

\* C20 witness: the press after pick(2), inside the box, emitted 2 and left
\* the control Closed.
C20_Witness ==
    /\ IsPress
    /\ previous = "picked"
    /\ Inside
    /\ NonNegative
    /\ old.last_selection = Some(2)
    /\ published = <<on_selected(2)>>
    /\ ~state.is_open

IsForwarded == op = "update" /\ event.type \in {"KeyPressed", "CharacterReceived"}

\* C21: is_open goes from false to true only in a press inside the box on
\* the Closed control, and from true to false only in a press inside the box
\* at a non-negative position, in a press that drains a pending mailbox
\* value, or in unfocus or pick; a scroll, a modifier change, an event
\* forwarded to the text field and a press outside the box with the mailbox
\* empty leave it as it was, also when the text field drops its focus.
C21_IsOpenChanges ==
    /\ (~old.is_open /\ state.is_open) => (IsPress /\ Inside)
    /\ (old.is_open /\ ~state.is_open) =>
           \/ IsPress /\ Inside /\ NonNegative
           \/ IsPress /\ old.last_selection # None
           \/ op \in {"State::unfocus", "Focusable::unfocus", "State::pick"}
    /\ (IsWheel \/ IsModifiers \/ IsForwarded) => state.is_open = old.is_open
    /\ (IsPress /\ ~Inside /\ old.last_selection = None) =>
           state.is_open = old.is_open

\* C21 witness: Escape took the focus from the text field of the Open
\* control, which stayed Open.
C21_Witness ==
    /\ IsForwarded
    /\ event.key_code = "Escape"
    /\ old.is_open
    /\ is_focused(old)
    /\ ~is_focused(state)
    /\ state.is_open

\* the Selected Value is some value and no option equals it
SelectedAbsent ==
    /\ selected # None
    /\ \A i \in 1..Len(options) : Some(options[i]) # selected

\* C22: a call publishes at most one selection message; a selection
\* published by a scroll carries an option of the current list; a gated
\* scroll with the Selected Value absent from the list publishes nothing, in
\* either direction, and is Captured.
C22_ScrollSelections ==
    /\ Len(SelectionsOf(published)) <= 1
    /\ IsWheel =>
           \A k \in 1..Len(published) :
               /\ IsSelection(published[k])
               /\ \E i \in 1..Len(options) : options[i] = published[k].value
    /\ (Gated /\ SelectedAbsent) => (published = <<>> /\ status = "Captured")

\* C22 witness: a gated backward scroll over [1, 1] with 2 selected published
\* nothing and was Captured.
C22_Witness ==
    /\ Gated
    /\ event.y > 0
    /\ options = <<1, 1>>
    /\ selected = Some(2)
    /\ published = <<>>
    /\ status = "Captured"

\* ---------------------------------------------------------------- layout claims
Shrunk == node.width = "Shrink"
\* the text size the pass used
SizeOf(n) ==
    IF n.text_size = None THEN n.renderer.default_size ELSE Unwrap(n.text_size)
\* nothing to measure: no option, and no placeholder or an empty one
NothingToMeasure(n) ==
    /\ Len(n.options) = 0
    /\ n.placeholder \in {None, Some(<<>>)}
\* the rendered widths the pass measured, in halves of a unit
MeasuredOf(n) ==
    {measured(n.renderer, to_string(n.options[i])) : i \in 1..Len(n.options)}
        \cup {measured(n.renderer, Unwrap(p)) : p \in {q \in {n.placeholder} : q # None}}

\* C15 as stated: with the shrink policy the intrinsic width is at least
\* every measured width, and equals the fallback of 100 units when there is
\* no option and no placeholder.
C15_IntrinsicWidthAsStated ==
    Shrunk =>
        /\ \A w \in MeasuredOf(node) : 2 * node.size.intrinsic.width >= w
        /\ NothingToMeasure(node) => node.size.intrinsic.width = FALLBACK_WIDTH

\* C15 amended: with the shrink policy the intrinsic width is at least every
\* measured width, and equals the fallback of 100 units plus the text size
\* plus the left padding when there is no option and no placeholder.
C15_IntrinsicWidth ==
    Shrunk =>
        /\ \A w \in MeasuredOf(node) : 2 * node.size.intrinsic.width >= w
        /\ NothingToMeasure(node) =>
               node.size.intrinsic.width =
                   FALLBACK_WIDTH + SizeOf(node) + node.padding_left

\* C15 witness: a shrink pass over options wider than the fallback, next to
\* an empty placeholder.
C15_Witness ==
    /\ Shrunk
    /\ node.options = <<1, 2>>
    /\ node.renderer.glyph = 120
    /\ node.placeholder = Some(<<>>)
    /\ node.size.max_width = 120
    /\ node.size.intrinsic.width = 120 + SizeOf(node) + node.padding_left

\* C19: with the shrink policy the content width is the widest of the
\* measured widths of the options and of the placeholder, and the fallback
\* of 100 units only when there is nothing to measure.  The code applies the
\* fallback to the options and to the placeholder separately: a missing
\* placeholder, or an empty option list, counts as 100 units wide.
C19_ContentWidth ==
    Shrunk =>
        node.size.max_width =
            IF NothingToMeasure(node) THEN FALLBACK_WIDTH
            ELSE Max({round(w) : w \in MeasuredOf(node)})

====
